---- MODULE Spec2Model ----
(***************************************************************************)
(* Model of the insight-flash application state controller (App in         *)
(* src/pages/Index.tsx), its views' handlers, the scheduler helpers and    *)
(* the useFirestore persistence hook.                                      *)
(*                                                                         *)
(* Time is counted in half days: DAY_IN_MS is 2 units, so that two         *)
(* instants of the same calendar day and a change of day both occur.  The  *)
(* local time zone has no daylight-saving shift, so Date.setDate(d + n)    *)
(* advances the clock by exactly n * DAY_IN_MS.                            *)
(*                                                                         *)
(* A text is a sequence of words and a word is a sequence of one-character *)
(* strings; the words of a text are separated by single spaces.            *)
(***************************************************************************)
EXTENDS Integers, Sequences, FiniteSets, TLC

VARIABLES
    doc,               \* Firestore document users/{uid}/data/clipAndReview_insights
    insights,          \* useFirestore storedValue: the in-memory collection
    page,              \* App page
    reviewingInsight,  \* App reviewingInsight: the copy the review view holds
    filter,            \* Dashboard filter
    modalState,        \* SettingsView modalState
    exercises,         \* PracticeView exercises (memoised on insights)
    currentExerciseIndex, \* PracticeView currentExerciseIndex (0-based)
    sessionComplete,   \* PracticeView sessionComplete
    nextId,            \* number of identifiers crypto.randomUUID has produced
    pending,           \* writes whose change notification is still to be delivered
    now                \* Date.now()

vars == <<doc, insights, page, reviewingInsight, filter, modalState,
          exercises, currentExerciseIndex, sessionComplete, nextId, pending, now>>

----------------------------------------------------------------------------
(* Bounds *)

MaxTime == 4
MaxInsights == 2
MaxIds == 2
MaxHist == 2
MaxExHist == 1
MaxPending == 2
MaxPick == 5

----------------------------------------------------------------------------
(* Constants of the program *)

REVIEW_INTERVALS == <<1, 3, 7, 21>>
DAY_IN_MS == 2
MinContentLength == 10
MaxEligiblePerSession == 5
MaxExercisesPerSession == 5

null == [isNull |-> TRUE]

Min(a, b) == IF a <= b THEN a ELSE b
Max(a, b) == IF a >= b THEN a ELSE b

----------------------------------------------------------------------------
(* Sequence helpers standing for Array.prototype.filter / map / slice *)

RECURSIVE SelectIdx(_, _, _)
SelectIdx(s, keep, k) ==
    IF k > Len(s) THEN <<>>
    ELSE IF k \in keep THEN <<s[k]>> \o SelectIdx(s, keep, k + 1)
         ELSE SelectIdx(s, keep, k + 1)

Slice(s, n) == IF Len(s) <= n THEN s ELSE SubSeq(s, 1, n)

\* the elements of the sequence s, as a set (Array.prototype.includes)
Range(s) == {s[k] : k \in 1..Len(s)}

RECURSIVE Flatten(_)
Flatten(ss) == IF ss = <<>> THEN <<>> ELSE Head(ss) \o Flatten(Tail(ss))

----------------------------------------------------------------------------
(* Texts *)

Punctuation == {".", ",", "!", "?", ";", ":"}

UpperToLower ==
    [A |-> "a", B |-> "b", C |-> "c", D |-> "d", E |-> "e", F |-> "f",
     G |-> "g", H |-> "h", I |-> "i", J |-> "j", K |-> "k", L |-> "l",
     M |-> "m", N |-> "n", O |-> "o", P |-> "p", Q |-> "q", R |-> "r",
     S |-> "s", T |-> "t", U |-> "u", V |-> "v", W |-> "w", X |-> "x",
     Y |-> "y", Z |-> "z"]

\* String.prototype.toLowerCase on one word
toLowerCase(word) ==
    [k \in 1..Len(word) |->
        IF word[k] \in DOMAIN UpperToLower THEN UpperToLower[word[k]] ELSE word[k]]

\* word.replace(/[.,!?;:]/g, '')
StripPunctuation(word) ==
    SelectIdx(word, {k \in 1..Len(word) : word[k] \notin Punctuation}, 1)

RECURSIVE SumLen(_)
SumLen(ws) == IF ws = <<>> THEN 0 ELSE Len(Head(ws)) + SumLen(Tail(ws))

\* ContentLength counting a space after every word, the last one too
ContentLengthTrailingSpace(content) == SumLen(content) + Len(content)

\* content.length: the characters of the words and the spaces between them
ContentLength(content) ==
    IF content = <<>> THEN 0 ELSE SumLen(content) + (Len(content) - 1)

\* the words of the regular expression /^(que|para|...|porque)$/i
StopWords ==
    { <<"q", "u", "e">>,
      <<"p", "a", "r", "a">>,
      <<"c", "o", "m">>,
      <<"u", "m", "a">>,
      <<"d", "o", "s">>,
      <<"d", "a", "s">>,
      <<"p", "o", "r">>,
      <<"s", "a~", "o">>,
      <<"f", "o", "i">>,
      <<"t", "e", "r">>,
      <<"s", "e", "r">>,
      <<"e", "s", "t", "a'">>,
      <<"i", "s", "s", "o">>,
      <<"m", "a", "i", "s">>,
      <<"m", "u", "i", "t", "o">>,
      <<"b", "e", "m">>,
      <<"c", "o", "m", "o">>,
      <<"q", "u", "a", "n", "d", "o">>,
      <<"o", "n", "d", "e">>,
      <<"p", "o", "r", "q", "u", "e">> }

IsStopWord(word) == toLowerCase(word) \in StopWords

\* "casa azul": 9 characters, too short to be added
ShortText == <<<<"c", "a", "s", "a">>, <<"a", "z", "u", "l">>>>
\* "temas novos.": every word qualifies for fill-blank and multiple-choice
FullText == <<<<"t", "e", "m", "a", "s">>, <<"n", "o", "v", "o", "s", ".">>>>
\* "que para com uma": only stop words and short words
StopText == <<<<"q", "u", "e">>, <<"p", "a", "r", "a">>, <<"c", "o", "m">>, <<"u", "m", "a">>>>

Contents == {ShortText, FullText}

\* "A produtividade pessoal depende de hábitos consistentes e disciplina diária."
ScenarioText ==
    << <<"A">>,
       <<"p", "r", "o", "d", "u", "t", "i", "v", "i", "d", "a", "d", "e">>,
       <<"p", "e", "s", "s", "o", "a", "l">>,
       <<"d", "e", "p", "e", "n", "d", "e">>,
       <<"d", "e">>,
       <<"h", "a'", "b", "i", "t", "o", "s">>,
       <<"c", "o", "n", "s", "i", "s", "t", "e", "n", "t", "e", "s">>,
       <<"e">>,
       <<"d", "i", "s", "c", "i", "p", "l", "i", "n", "a">>,
       <<"d", "i", "a'", "r", "i", "a", ".">> >>

\* "O Processo ajuda muito.": a capitalised word of the distractor pool, a stop word
ProcessText ==
    << <<"O">>,
       <<"P", "r", "o", "c", "e", "s", "s", "o">>,
       <<"a", "j", "u", "d", "a">>,
       <<"m", "u", "i", "t", "o", ".">> >>

\* "Foco: foco, FOCO! sim": the same 4-letter word three times, and a short word
RepeatText ==
    << <<"F", "o", "c", "o", ":">>,
       <<"f", "o", "c", "o", ",">>,
       <<"F", "O", "C", "O", "!">>,
       <<"s", "i", "m">> >>

\* "método e teoria": two words of the distractor pool
PoolText ==
    << <<"m", "e'", "t", "o", "d", "o">>,
       <<"e">>,
       <<"t", "e", "o", "r", "i", "a">> >>

\* "temas" and "novos ajudam" on two lines of the textarea: the line break is
\* a character of the first piece that split(' ') yields
LinesText ==
    << <<"t", "e", "m", "a", "s", "\n", "n", "o", "v", "o", "s">>,
       <<"a", "j", "u", "d", "a", "m">> >>

\* the contents the exercise generators are applied to
GeneratorContents ==
    {FullText, StopText, ScenarioText, ProcessText, RepeatText, PoolText, LinesText}

\* the white space that may occur inside a piece of a text
WhiteSpace == {"\n", "\t"}

\* word.split(/\s+/) for a piece without leading or trailing white space
RECURSIVE splitWord(_)
splitWord(word) ==
    IF \E k \in 1..Len(word) : word[k] \in WhiteSpace
    THEN LET k == CHOOSE k \in 1..Len(word) :
                     /\ word[k] \in WhiteSpace
                     /\ \A j \in 1..(k - 1) : word[j] \notin WhiteSpace
         IN  <<SubSeq(word, 1, k - 1)>> \o splitWord(SubSeq(word, k + 1, Len(word)))
    ELSE <<word>>

\* content.split(/\s+/)
splitWhitespace(content) ==
    Flatten([k \in 1..Len(content) |-> splitWord(content[k])])

----------------------------------------------------------------------------
(* Scheduler *)

\* getNextReviewTimestamp with the stage clamped into the table
getNextReviewTimestampClamped(stage) ==
    now + REVIEW_INTERVALS[Max(0, Min(stage, Len(REVIEW_INTERVALS) - 1)) + 1] * DAY_IN_MS

\* REVIEW_INTERVALS[stage] || 1, then now.setDate(now.getDate() + interval)
getNextReviewTimestamp(stage) ==
    LET interval == IF stage \in 0..(Len(REVIEW_INTERVALS) - 1)
                    THEN REVIEW_INTERVALS[stage + 1]
                    ELSE 1
    IN  now + interval * DAY_IN_MS

\* calculatePriority with the sign of the stage weight flipped
calculatePriorityStageBonus(insight) ==
    LET overdue == Max(0, now - insight.nextReview)
        sinceCreation == now - insight.timestamp
        recency == Max(0, 30 * DAY_IN_MS - sinceCreation)
    IN  (overdue * 10 * 30) + (insight.reviewStage * 2 * 30 * DAY_IN_MS)
        + (recency * 5)

\* calculatePriority(insight) * 30 * DAY_IN_MS, which is an integer:
\*   daysOverdue * 10 + reviewStage * -2 + recencyBonus * 5
calculatePriority(insight) ==
    LET overdue == Max(0, now - insight.nextReview)
        sinceCreation == now - insight.timestamp
        recency == Max(0, 30 * DAY_IN_MS - sinceCreation)
    IN  (overdue * 10 * 30) + (insight.reviewStage * (-2) * 30 * DAY_IN_MS)
        + (recency * 5)

\* new Date(t).toDateString(): the local calendar day of t
toDateString(t) == t \div DAY_IN_MS

\* isEligibleForExercise with a rolling window of 24 hours instead of the
\* calendar day
isEligibleForExerciseRolling(insight) ==
    IF insight.reviewStage < 2 /\ ~insight.isMastered THEN FALSE
    ELSE IF insight.lastExerciseDate = 0 THEN TRUE
         ELSE now - insight.lastExerciseDate >= DAY_IN_MS

isEligibleForExercise(insight) ==
    IF insight.reviewStage < 2 /\ ~insight.isMastered THEN FALSE
    ELSE IF insight.lastExerciseDate = 0 THEN TRUE
         ELSE toDateString(insight.lastExerciseDate) # toDateString(now)

\* new Date(t).getDate(): the day of the month of t, in months of 31 days
getDate(t) == ((t \div DAY_IN_MS) % 31) + 1

\* the exerciseAvailableCount of the header, for the collection coll
exerciseAvailableCount(coll) ==
    LET today == getDate(now)
        Counted(insight) ==
            IF insight.reviewStage < 2 /\ ~insight.isMastered THEN FALSE
            ELSE LET lastExerciseDate == IF insight.lastExerciseDate # 0
                                         THEN getDate(insight.lastExerciseDate) ELSE 0
                     exercisesToday ==
                         Cardinality({k \in 1..Len(insight.exerciseHistory) :
                             getDate(insight.exerciseHistory[k].timestamp) = today})
                 IN  lastExerciseDate # today \/ exercisesToday < 3
    IN  Cardinality({k \in 1..Len(coll) : Counted(coll[k])})

\* IsDue without the test of isMastered
IsDueIgnoringMastered(i) == i.nextReview <= now

\* the insights a due-review filter keeps: !i.isMastered && i.nextReview <= now
IsDue(i) == ~i.isMastered /\ i.nextReview <= now

\* xs.sort((a, b) => calculatePriority(b) - calculatePriority(a)): a stable
\* sort, so equal priorities keep the order of xs
RECURSIVE InsertByPriority(_, _)
InsertByPriority(sorted, x) ==
    IF sorted = <<>> THEN <<x>>
    ELSE IF calculatePriority(Head(sorted)) >= calculatePriority(x)
         THEN <<Head(sorted)>> \o InsertByPriority(Tail(sorted), x)
         ELSE <<x>> \o sorted

RECURSIVE SortByPriority(_)
SortByPriority(xs) ==
    IF xs = <<>> THEN <<>>
    ELSE InsertByPriority(SortByPriority(SubSeq(xs, 1, Len(xs) - 1)), xs[Len(xs)])

\* xs.sort((a, b) => (a.lastExerciseDate || 0) - (b.lastExerciseDate || 0))
RECURSIVE InsertByLastExercise(_, _)
InsertByLastExercise(sorted, x) ==
    IF sorted = <<>> THEN <<x>>
    ELSE IF Head(sorted).lastExerciseDate <= x.lastExerciseDate
         THEN <<Head(sorted)>> \o InsertByLastExercise(Tail(sorted), x)
         ELSE <<x>> \o sorted

RECURSIVE SortByLastExercise(_)
SortByLastExercise(xs) ==
    IF xs = <<>> THEN <<>>
    ELSE InsertByLastExercise(SortByLastExercise(SubSeq(xs, 1, Len(xs) - 1)),
                              xs[Len(xs)])

----------------------------------------------------------------------------
(* Exercise generator (ExerciseEngine) *)

\* the indices of the words generateFillBlank may blank out
significantWords(content) ==
    {k \in 1..Len(content) :
        /\ Len(StripPunctuation(content[k])) > 3
        /\ ~IsStopWord(StripPunctuation(content[k]))}

\* the indices of the words generateMultipleChoice may pick
keywords(content) ==
    {k \in 1..Len(content) :
        /\ Len(StripPunctuation(content[k])) > 4
        /\ ~IsStopWord(StripPunctuation(content[k]))}

\* ExerciseEngine.generateExercises(insight).map(e => ({...e, insight})):
\* the types produced, in order, each carrying the insight it was made from
generateExercises(insight) ==
    (IF significantWords(insight.content) # {}
     THEN <<[type |-> "fill-blank", insight |-> insight]>> ELSE <<>>)
    \o (IF keywords(insight.content) # {}
        THEN <<[type |-> "multiple-choice", insight |-> insight]>> ELSE <<>>)
    \o <<[type |-> "open-answer", insight |-> insight]>>

\* PracticeView eligibleInsights
eligibleInsights(coll) ==
    Slice(SortByLastExercise(
              SelectIdx(coll, {k \in 1..Len(coll) : isEligibleForExercise(coll[k])}, 1)),
          MaxEligiblePerSession)

\* PracticeView exercises
sessionExercises(coll) ==
    LET el == Slice(eligibleInsights(coll), MaxEligiblePerSession)
    IN  Slice(Flatten([k \in 1..Len(el) |-> generateExercises(el[k])]),
              MaxExercisesPerSession)

----------------------------------------------------------------------------
(* Exercise generators: the exercises themselves.  Math.random is a choice    *)
(* of the caller: the index of the word picked, the permutation the shuffle   *)
(* produces.  crypto.randomUUID (the id of an exercise) is left out.          *)

\* commonDistractors
commonDistractors ==
    << <<"p", "r", "o", "c", "e", "s", "s", "o">>,
       <<"m", "e'", "t", "o", "d", "o">>,
       <<"c", "o", "n", "c", "e", "i", "t", "o">>,
       <<"s", "i", "s", "t", "e", "m", "a">>,
       <<"e", "s", "t", "r", "a", "t", "e'", "g", "i", "a">>,
       <<"t", "e'", "c", "n", "i", "c", "a">>,
       <<"a", "b", "o", "r", "d", "a", "g", "e", "m">>,
       <<"m", "o", "d", "e", "l", "o">>,
       <<"f", "r", "a", "m", "e", "w", "o", "r", "k">>,
       <<"p", "r", "i", "n", "c", "i'", "p", "i", "o">>,
       <<"t", "e", "o", "r", "i", "a">>,
       <<"p", "r", "a'", "t", "i", "c", "a">> >>

\* ['elemento', 'aspecto', 'fator']
genericDistractors ==
    << <<"e", "l", "e", "m", "e", "n", "t", "o">>,
       <<"a", "s", "p", "e", "c", "t", "o">>,
       <<"f", "a", "t", "o", "r">> >>

item == <<"i", "t", "e", "m">>

\* conceptualWords of generateSmartDistractors
conceptualWords ==
    << <<"p", "r", "o", "c", "e", "s", "s", "o">>,
       <<"m", "e'", "t", "o", "d", "o">>,
       <<"s", "i", "s", "t", "e", "m", "a">>,
       <<"e", "s", "t", "r", "a", "t", "e'", "g", "i", "a">>,
       <<"a", "b", "o", "r", "d", "a", "g", "e", "m">>,
       <<"t", "e'", "c", "n", "i", "c", "a">>,
       <<"m", "o", "d", "e", "l", "o">>,
       <<"f", "r", "a", "m", "e", "w", "o", "r", "k">>,
       <<"p", "r", "i", "n", "c", "i'", "p", "i", "o">>,
       <<"t", "e", "o", "r", "i", "a">>,
       <<"c", "o", "n", "c", "e", "i", "t", "o">>,
       <<"p", "r", "a'", "t", "i", "c", "a">>,
       <<"e", "l", "e", "m", "e", "n", "t", "o">>,
       <<"a", "s", "p", "e", "c", "t", "o">>,
       <<"f", "a", "t", "o", "r">>,
       <<"m", "e", "c", "a", "n", "i", "s", "m", "o">>,
       <<"e", "s", "t", "r", "u", "t", "u", "r", "a">>,
       <<"p", "a", "d", "r", "a~", "o">>,
       <<"d", "i", "n", "a^", "m", "i", "c", "a">>,
       <<"f", "e", "n", "o^", "m", "e", "n", "o">> >>

\* commonWords of extractConcepts
conceptCommonWords ==
    { <<"m", "u", "i", "t", "o">>,
      <<"m", "a", "i", "s">>,
      <<"b", "e", "m">>,
      <<"c", "o", "m", "o">>,
      <<"q", "u", "a", "n", "d", "o">>,
      <<"o", "n", "d", "e">>,
      <<"p", "o", "r", "q", "u", "e">>,
      <<"e", "n", "t", "a~", "o">>,
      <<"m", "a", "s">>,
      <<"t", "a", "m", "b", "e'", "m">>,
      <<"p", "o", "d", "e">>,
      <<"d", "e", "v", "e">>,
      <<"f", "a", "z", "e", "r">>,
      <<"s", "o", "b", "r", "e">> }

\* conceptualSuffixes of extractConcepts
conceptualSuffixes ==
    { <<"c,", "a~", "o">>,
      <<"m", "e", "n", "t", "o">>,
      <<"d", "a", "d", "e">>,
      <<"i", "s", "m", "o">>,
      <<"n", "c", "i", "a">>,
      <<"e^", "n", "c", "i", "a">>,
      <<"a", "g", "e", "m">>,
      <<"u", "r", "a">> }

BlankMarker == <<"______">>

\* the permutations options.sort(() => Math.random() - 0.5) may produce
Shuffles(n) == {p \in [1..n -> 1..n] : \A i, j \in 1..n : i # j => p[i] # p[j]}

\* ExerciseEngine.generateFillBlank, index being the position of randomWord;
\* the result is null when significantWords is empty
generateFillBlank(insight, index) ==
    LET words == insight.content
        wordToReplace == StripPunctuation(words[index])
    IN  [type |-> "fill-blank",
         prompt |-> [template |-> "Complete a lacuna: ${prompt}",
                     words |-> [words EXCEPT ![index] = BlankMarker]],
         correctAnswer |-> toLowerCase(wordToReplace),
         explanation |-> [word |-> wordToReplace, content |-> insight.content]]

\* the while loop of generateDistractors; with fewer than 3 distractors and
\* 'item' already among them the loop of the source does not end, which the
\* 12 distinct words of commonDistractors never let happen
RECURSIVE padDistractors(_)
padDistractors(validDistractors) ==
    IF Len(validDistractors) >= 3 THEN validDistractors
    ELSE LET n == Len(validDistractors) - Len(commonDistractors)
             generic == IF n \in 0..(Len(genericDistractors) - 1)
                        THEN genericDistractors[n + 1] ELSE item
         IN  IF generic \notin Range(validDistractors)
             THEN padDistractors(Append(validDistractors, generic))
             ELSE validDistractors

\* generateDistractors without the filter on the correct answer
generateDistractorsUnfiltered(correctAnswer) ==
    Slice(padDistractors(Slice(commonDistractors, 3)), 3)

\* ExerciseEngine.generateDistractors
generateDistractors(correctAnswer) ==
    Slice(padDistractors(Slice(
        SelectIdx(commonDistractors,
                  {k \in 1..Len(commonDistractors) :
                      toLowerCase(commonDistractors[k]) # toLowerCase(correctAnswer)}, 1),
        3)), 3)

\* ExerciseEngine.generateMultipleChoice, index being the position of the
\* keyword picked and shuffle the permutation of the options; the result is
\* null when keywords is empty
generateMultipleChoice(insight, index, shuffle) ==
    LET correctAnswer == StripPunctuation(insight.content[index])
        unshuffled == <<correctAnswer>> \o generateDistractors(correctAnswer)
    IN  [type |-> "multiple-choice",
         prompt |-> [template |-> "Qual conceito e' central neste insight: \"${excerpt}...\"?",
                     words |-> insight.content],
         options |-> [k \in 1..Len(unshuffled) |-> unshuffled[shuffle[k]]],
         correctAnswer |-> toLowerCase(correctAnswer),
         explanation |-> [word |-> correctAnswer, content |-> insight.content]]

\* word.replace(/[.,!?;:()"']/g, '')
StripPunctuationAI(word) ==
    SelectIdx(word, {k \in 1..Len(word) :
                        word[k] \notin Punctuation \cup {"(", ")", "\"", "'"}}, 1)

\* lowerWord.endsWith(suffix)
endsWith(word, suffix) ==
    /\ Len(suffix) <= Len(word)
    /\ SubSeq(word, Len(word) - Len(suffix) + 1, Len(word)) = suffix

\* the characters c with c.toUpperCase() !== c
LowerCaseLetters ==
    {UpperToLower[c] : c \in DOMAIN UpperToLower}
        \cup {"a'", "e'", "i'", "o'", "a~", "c,", "e^", "a^", "o^"}

\* [...new Set(xs)]: the first occurrence of every element, in order
RECURSIVE Dedupe(_)
Dedupe(xs) ==
    IF xs = <<>> THEN <<>>
    ELSE LET r == Dedupe(SubSeq(xs, 1, Len(xs) - 1))
         IN  IF xs[Len(xs)] \in Range(r) THEN r ELSE Append(r, xs[Len(xs)])

\* AIExerciseGenerator.extractConcepts
extractConcepts(content) ==
    LET split == splitWhitespace(content)
        stripped == [k \in 1..Len(split) |-> StripPunctuationAI(split[k])]
        words == SelectIdx(stripped, {k \in 1..Len(stripped) : Len(stripped[k]) > 4}, 1)
        IsConcept(word) ==
            IF toLowerCase(word) \in conceptCommonWords THEN FALSE
            ELSE IF \E suffix \in conceptualSuffixes : endsWith(toLowerCase(word), suffix)
                 THEN TRUE
            ELSE IF word[1] \notin LowerCaseLetters /\ Len(word) > 1 THEN TRUE
            ELSE Len(word) > 6
    IN  Slice(Dedupe(SelectIdx(words, {k \in 1..Len(words) : IsConcept(words[k])}, 1)), 3)

\* the words generateSmartDistractors keeps before it shuffles them
smartDistractorPool(correctAnswer) ==
    SelectIdx(conceptualWords,
              {k \in 1..Len(conceptualWords) :
                  toLowerCase(conceptualWords[k]) # toLowerCase(correctAnswer)}, 1)

\* AIExerciseGenerator.getMultipleChoiceFromIA once concepts is not empty;
\* picked holds the positions in smartDistractorPool of the first three words
\* after its shuffle
getMultipleChoiceFromIA(insight, picked, shuffle) ==
    LET mainConcept == extractConcepts(insight.content)[1]
        pool == smartDistractorPool(mainConcept)
        unshuffled == <<mainConcept, pool[picked[1]], pool[picked[2]], pool[picked[3]]>>
    IN  [type |-> "multiple-choice",
         prompt |-> [template |-> "Baseado no insight \"${excerpt}...\", qual e' o conceito central?",
                     words |-> insight.content],
         options |-> [k \in 1..Len(unshuffled) |-> unshuffled[shuffle[k]]],
         correctAnswer |-> toLowerCase(mainConcept),
         explanation |-> [word |-> mainConcept, content |-> insight.content]]

\* the four prompts of generateOpenAnswer
openAnswerPrompts ==
    <<"Explique com suas proprias palavras o conceito apresentado neste insight:",
      "Como voce aplicaria este conceito em uma situacao pratica?",
      "Qual e a ideia principal deste insight?",
      "Resuma este insight em suas proprias palavras:">>

\* ExerciseEngine.generateOpenAnswer, promptIndex being the prompt drawn
generateOpenAnswer(insight, promptIndex) ==
    [type |-> "open-answer",
     prompt |-> openAnswerPrompts[promptIndex],
     correctAnswer |-> insight.content,
     explanation |-> [template |-> "Resposta de referencia: ${content}",
                      content |-> insight.content]]

\* what a call of generateFillBlank can return for an insight
fillBlankResults(insight) ==
    IF significantWords(insight.content) = {} THEN {null}
    ELSE {generateFillBlank(insight, index) : index \in significantWords(insight.content)}

Shuffles4 == Shuffles(4)

\* what a call of generateMultipleChoice can return for an insight
multipleChoiceResults(insight) ==
    IF keywords(insight.content) = {} THEN {null}
    ELSE {generateMultipleChoice(insight, index, shuffle) :
             index \in keywords(insight.content), shuffle \in Shuffles4}

\* what a call of generateOpenAnswer can return for an insight
openAnswerResults(insight) ==
    {generateOpenAnswer(insight, promptIndex) : promptIndex \in 1..Len(openAnswerPrompts)}

\* the batch that pushes the fill-blank result without testing it
generateExercisesKeepingNull(fillBlank, multipleChoice, openAnswer) ==
    <<fillBlank>>
    \o (IF multipleChoice # null THEN <<multipleChoice>> ELSE <<>>)
    \o <<openAnswer>>

\* ExerciseEngine.generateExercises, given what its three calls returned
ExerciseEngineGenerateExercises(fillBlank, multipleChoice, openAnswer) ==
    (IF fillBlank # null THEN <<fillBlank>> ELSE <<>>)
    \o (IF multipleChoice # null THEN <<multipleChoice>> ELSE <<>>)
    \o <<openAnswer>>

\* commonWords of calculateWordImportance
importanceCommonWords ==
    { <<"q", "u", "e">>,
      <<"p", "a", "r", "a">>,
      <<"c", "o", "m">>,
      <<"u", "m", "a">>,
      <<"d", "o", "s">>,
      <<"d", "a", "s">>,
      <<"p", "o", "r">>,
      <<"s", "a~", "o">>,
      <<"f", "o", "i">>,
      <<"t", "e", "r">>,
      <<"s", "e", "r">>,
      <<"e", "s", "t", "a'">>,
      <<"i", "s", "s", "o">>,
      <<"m", "a", "i", "s">>,
      <<"m", "u", "i", "t", "o">>,
      <<"b", "e", "m">>,
      <<"c", "o", "m", "o">>,
      <<"q", "u", "a", "n", "d", "o">>,
      <<"o", "n", "d", "e">>,
      <<"p", "o", "r", "q", "u", "e">>,
      <<"e", "n", "t", "a~", "o">>,
      <<"m", "a", "s">>,
      <<"t", "a", "m", "b", "e'", "m">>,
      <<"p", "o", "d", "e">>,
      <<"d", "e", "v", "e">>,
      <<"f", "a", "z", "e", "r">>,
      <<"s", "o", "b", "r", "e">>,
      <<"e", "n", "t", "r", "e">>,
      <<"d", "u", "r", "a", "n", "t", "e">>,
      <<"a", "t", "r", "a", "v", "e'", "s">>,
      <<"d", "e", "n", "t", "r", "o">>,
      <<"f", "o", "r", "a">>,
      <<"a", "n", "t", "e", "s">>,
      <<"d", "e", "p", "o", "i", "s">> }

\* technicalIndicators of calculateWordImportance
technicalIndicators ==
    { <<"c,", "a~", "o">>,
      <<"m", "e", "n", "t", "o">>,
      <<"d", "a", "d", "e">>,
      <<"i", "s", "m", "o">>,
      <<"n", "c", "i", "a">>,
      <<"e^", "n", "c", "i", "a">> }

\* contextWords of calculateWordImportance
contextWords ==
    { <<"c", "o", "n", "c", "e", "i", "t", "o">>,
      <<"p", "r", "i", "n", "c", "i'", "p", "i", "o">>,
      <<"t", "e", "o", "r", "i", "a">>,
      <<"m", "e'", "t", "o", "d", "o">>,
      <<"p", "r", "o", "c", "e", "s", "s", "o">>,
      <<"s", "i", "s", "t", "e", "m", "a">> }

\* "teoria geral": a short word that follows a context word
ContextText ==
    << <<"t", "e", "o", "r", "i", "a">>, <<"g", "e", "r", "a", "l">> >>

\* "A produtividade pessoal": the first words of ScenarioText, a long word
\* with a technical suffix and a word of 7 letters
SuffixText == SubSeq(ScenarioText, 1, 3)

\* xs.indexOf(x) + 1: the position of the first x in xs, 0 when there is none
indexOf(xs, x) ==
    IF x \in Range(xs) THEN CHOOSE k \in 1..Len(xs) : xs[k] = x /\ \A j \in 1..(k - 1) : xs[j] # x ELSE 0

\* AIExerciseGenerator.calculateWordImportance, in tenths
calculateWordImportance(word, content) ==
    LET cleanWord == toLowerCase(StripPunctuationAI(word))
        split == splitWhitespace(content)
        nearbyWords == [k \in 1..Len(split) |-> toLowerCase(split[k])]
        wordIndex == indexOf(nearbyWords, cleanWord)
    IN  IF cleanWord \in importanceCommonWords THEN 0
        ELSE Min(5 + (IF Len(cleanWord) > 6 THEN 2 ELSE 0)
                   + (IF Len(cleanWord) > 8 THEN 1 ELSE 0)
                   + (IF \E suffix \in technicalIndicators : endsWith(cleanWord, suffix)
                      THEN 3 ELSE 0)
                   + (IF wordIndex > 1 /\ nearbyWords[wordIndex - 1] \in contextWords
                      THEN 4 ELSE 0),
                 10)

\* the positions of importantWords of getFillBlankQuestionFromIA, unsorted
importantWords(content) ==
    LET words == splitWhitespace(content)
    IN  {k \in 1..Len(words) :
            /\ Len(StripPunctuationAI(words[k])) > 3
            /\ calculateWordImportance(words[k], content) > 5}

\* importantWords[0] after the stable sort by falling importance
selectedWord(content) ==
    LET words == splitWhitespace(content)
        best == {k \in importantWords(content) :
                    \A j \in importantWords(content) :
                        calculateWordImportance(words[j], content)
                            <= calculateWordImportance(words[k], content)}
    IN  CHOOSE k \in best : \A j \in best : k <= j

\* the fill-blank exercise that blanks the word at index
fillBlankFromIA(insight, index, explanation) ==
    LET words == splitWhitespace(insight.content)
        word == StripPunctuationAI(words[index])
    IN  [type |-> "fill-blank",
         prompt |-> [words EXCEPT ![index] = BlankMarker],
         correctAnswer |-> toLowerCase(word),
         explanation |-> [template |-> explanation, word |-> word]]

\* what AIExerciseGenerator.getFillBlankQuestionFromIA can return: with no
\* important word a random word is blanked, else the most important one,
\* with one of the four explanations of generateExplanation
fillBlankFromIAResults(insight) ==
    IF importantWords(insight.content) = {}
    THEN {fillBlankFromIA(insight, randomIndex, 0) :
             randomIndex \in 1..Len(splitWhitespace(insight.content))}
    ELSE {fillBlankFromIA(insight, selectedWord(insight.content), randomExplanation) :
             randomExplanation \in 1..4}

\* how AIExerciseGenerator.getMultipleChoiceFromIA can end: the error thrown
\* when there is no concept, or an exercise
multipleChoiceFromIAResults(insight) ==
    IF extractConcepts(insight.content) = <<>>
    THEN {[error |-> "Nao foi possivel extrair conceitos do insight"]}
    ELSE LET n == Min(MaxPick,
                      Len(smartDistractorPool(extractConcepts(insight.content)[1])))
         IN  {getMultipleChoiceFromIA(insight, picked, shuffle) :
                 picked \in {q \in [1..3 -> 1..n] :
                                q[1] # q[2] /\ q[1] # q[3] /\ q[2] # q[3]},
                 shuffle \in Shuffles4}

\* what ExerciseEngine.generateExercises can return for an insight
generateExercisesResults(insight) ==
    {ExerciseEngineGenerateExercises(fillBlank, multipleChoice, openAnswer) :
        fillBlank \in fillBlankResults(insight),
        multipleChoice \in multipleChoiceResults(insight),
        openAnswer \in openAnswerResults(insight)}

\* a call that ended in an exception
IsThrown(result) == "error" \in DOMAIN result

\* the enhanced path that returns the base generator's result as soon as
\* one of the enhanced generators fails
generateExercisesWithAIFallback(fillBlank, multipleChoice, standardExercises) ==
    IF IsThrown(fillBlank) \/ IsThrown(multipleChoice) THEN standardExercises
    ELSE <<fillBlank, multipleChoice>>
         \o Slice(SelectIdx(standardExercises,
                            {k \in 1..Len(standardExercises) :
                                standardExercises[k].type = "open-answer"}, 1), 1)

\* generateExercisesWithAI, given how the two enhanced calls ended and what
\* generateExercises(insight) returns
generateExercisesWithAI(fillBlank, multipleChoice, standardExercises) ==
    LET made == (IF IsThrown(fillBlank) THEN <<>> ELSE <<fillBlank>>)
                \o (IF IsThrown(multipleChoice) THEN <<>> ELSE <<multipleChoice>>)
    IN  IF made = <<>> THEN standardExercises
        ELSE made \o Slice(SelectIdx(standardExercises,
                                     {k \in 1..Len(standardExercises) :
                                         standardExercises[k].type = "open-answer"}, 1), 1)

----------------------------------------------------------------------------
(* Import files: what JSON.parse may return for a file the user picks *)

ImportedInsight(id, content, stage, history) ==
    [id |-> id, content |-> content, timestamp |-> 1, reviewStage |-> stage,
     nextReview |-> DAY_IN_MS, isMastered |-> FALSE, reviewHistory |-> history,
     exerciseEnabled |-> FALSE, lastExerciseDate |-> 0, exerciseHistory |-> <<>>]

\* a backup of a well-formed collection
GoodFile ==
    <<[hasId |-> TRUE, hasContent |-> TRUE,
       value |-> ImportedInsight(11, FullText, 3,
                                 <<[timestamp |-> 1, action |-> "created"]>>)]>>

\* every element has id and content, but the other fields were edited by hand
EditedFile ==
    <<[hasId |-> TRUE, hasContent |-> TRUE,
       value |-> ImportedInsight(12, StopText, 5,
                                 <<[timestamp |-> 1, action |-> "reviewed"]>>)]>>

\* an element without a content field
MalformedFile ==
    <<[hasId |-> TRUE, hasContent |-> FALSE,
       value |-> ImportedInsight(13, <<>>, 0,
                                 <<[timestamp |-> 1, action |-> "created"]>>)]>>

\* a well-formed element followed by an element without a content field
MixedFile == GoodFile \o MalformedFile

\* what JSON.parse returned: an array of items, or something else
ParsedArray(items) == [isArray |-> TRUE, items |-> items]

\* a single insight object, not inside an array
ObjectFile == [isArray |-> FALSE, items |-> GoodFile]

ImportFiles ==
    {ParsedArray(GoodFile), ParsedArray(EditedFile), ParsedArray(MalformedFile),
     ParsedArray(MixedFile), ObjectFile}

\* IsValidImport looking at the id fields only
IsValidImportIdOnly(file) ==
    file.isArray /\ \A k \in 1..Len(file.items) : file.items[k].hasId

\* Array.isArray(data) && data.every(item => 'id' in item && 'content' in item)
IsValidImport(file) ==
    /\ file.isArray
    /\ \A k \in 1..Len(file.items) : file.items[k].hasId /\ file.items[k].hasContent

ClosedModal == [kind |-> "closed", data |-> <<>>]

----------------------------------------------------------------------------
(* Initial state: signed in, the document created with the initial value [] *)

Init ==
    /\ doc = <<>>
    /\ insights = <<>>
    /\ page = "dashboard"
    /\ reviewingInsight = null
    /\ filter = "today"
    /\ modalState = ClosedModal
    /\ exercises = <<>>
    /\ currentExerciseIndex = 0
    /\ sessionComplete = FALSE
    /\ nextId = 0
    /\ pending = 0
    /\ now = DAY_IN_MS

----------------------------------------------------------------------------
(* Persistence hook *)

\* a write that merges: the stored insights valueToStore does not name are kept
setValueMerging(valueToStore) ==
    /\ pending < MaxPending
    /\ doc' = valueToStore \o SelectIdx(doc,
                  {k \in 1..Len(doc) :
                      \A j \in 1..Len(valueToStore) : valueToStore[j].id # doc[k].id}, 1)
    /\ pending' = pending + 1

\* useFirestore.setValue: valueToStore is computed by the caller from
\* storedValue (the variable insights) and written as the whole document
setValue(valueToStore) ==
    /\ pending < MaxPending
    /\ doc' = valueToStore
    /\ pending' = pending + 1

\* the value the components see after a notification: Dashboard with the
\* filter "all" sorts the array it was given in place
Rendered(coll, p, f) ==
    IF p = "dashboard" /\ f = "all" THEN SortByPriority(coll) ELSE coll

----------------------------------------------------------------------------
(* Mounting and unmounting of the views when the page changes *)

\* Dashboard, SettingsView and PracticeView keep their state only while mounted
ViewState(newPage) ==
    /\ filter' = IF newPage = "dashboard" /\ page = "dashboard" THEN filter ELSE "today"
    /\ modalState' = IF newPage = "settings" /\ page = "settings"
                     THEN modalState ELSE ClosedModal
    /\ IF newPage = "practice" /\ page = "practice"
       THEN UNCHANGED <<exercises, currentExerciseIndex, sessionComplete>>
       ELSE /\ exercises' = IF newPage = "practice"
                            THEN sessionExercises(insights) ELSE <<>>
            /\ currentExerciseIndex' = 0
            /\ sessionComplete' = FALSE

----------------------------------------------------------------------------
(* Application state controller *)

\* { ...i, ...updates }
Merge(i, updates) ==
    LET F(f) == IF f \in DOMAIN updates THEN updates[f] ELSE i[f]
    IN  [id |-> F("id"), content |-> F("content"), timestamp |-> F("timestamp"),
         reviewStage |-> F("reviewStage"), nextReview |-> F("nextReview"),
         isMastered |-> F("isMastered"), reviewHistory |-> F("reviewHistory"),
         exerciseEnabled |-> F("exerciseEnabled"),
         lastExerciseDate |-> F("lastExerciseDate"),
         exerciseHistory |-> F("exerciseHistory")]

\* an update that moves the insight updated to the front of the collection
MapUpdateMovingToFront(prev, id, updates) ==
    LET hit == {k \in 1..Len(prev) : prev[k].id = id}
        updated == SelectIdx(prev, hit, 1)
    IN  [k \in 1..Len(updated) |-> Merge(updated[k], updates)]
        \o SelectIdx(prev, (1..Len(prev)) \ hit, 1)

\* prev.map(i => i.id === id ? { ...i, ...updates } : i)
MapUpdate(prev, id, updates) ==
    [k \in 1..Len(prev) |->
        IF prev[k].id = id THEN Merge(prev[k], updates) ELSE prev[k]]

\* nextToReview without the exclusion of the insight just updated
nextToReviewAny(id) ==
    SortByPriority(SelectIdx(insights,
        {k \in 1..Len(insights) : IsDue(insights[k])}, 1))

\* the due insights other than id, highest priority first
nextToReview(id) ==
    SortByPriority(SelectIdx(insights,
        {k \in 1..Len(insights) : insights[k].id # id /\ IsDue(insights[k])}, 1))

handleUpdateInsight(id, updates) ==
    /\ setValue(MapUpdate(insights, id, updates))
    /\ IF page = "review"
       THEN IF nextToReview(id) # <<>>
            THEN /\ reviewingInsight' = nextToReview(id)[1]
                 /\ page' = page
            ELSE /\ page' = "dashboard"
                 /\ reviewingInsight' = null
       ELSE UNCHANGED <<page, reviewingInsight>>

\* the number shown on the review button
insightsToReviewCount ==
    Len(SelectIdx(insights, {k \in 1..Len(insights) : IsDue(insights[k])}, 1))

\* Dashboard filteredInsights: the cards shown
filteredInsights ==
    SortByPriority(
        IF filter = "today"
        THEN SelectIdx(insights, {k \in 1..Len(insights) : IsDue(insights[k])}, 1)
        ELSE IF filter = "completed"
        THEN SelectIdx(insights, {k \in 1..Len(insights) : insights[k].isMastered}, 1)
        ELSE insights)

\* newStage without the cap at the last stage
newStageUncapped(insight, rememberedWell) ==
    IF rememberedWell THEN insight.reviewStage + 1 ELSE insight.reviewStage

\* newStage with "needs more review" stepping one stage back
newStageRegress(insight, rememberedWell) ==
    IF rememberedWell
    THEN Min(insight.reviewStage + 1, Len(REVIEW_INTERVALS) - 1)
    ELSE Max(insight.reviewStage - 1, 0)

\* ReviewView.handleReview: the stage written back
newStage(insight, rememberedWell) ==
    IF rememberedWell
    THEN Min(insight.reviewStage + 1, Len(REVIEW_INTERVALS) - 1)
    ELSE insight.reviewStage

\* ReviewView.handleReview: the fields passed to onUpdateInsight
ReviewUpdates(insight, rememberedWell) ==
    [reviewStage |-> newStage(insight, rememberedWell),
     nextReview |-> getNextReviewTimestamp(newStage(insight, rememberedWell)),
     reviewHistory |-> Append(insight.reviewHistory,
                              [timestamp |-> now, action |-> "reviewed"])]

\* MasteredUpdates also moving the insight to the last stage
MasteredUpdatesLastStage(insight) ==
    [isMastered |-> TRUE,
     reviewStage |-> Len(REVIEW_INTERVALS) - 1,
     reviewHistory |-> Append(insight.reviewHistory,
                              [timestamp |-> now, action |-> "mastered"])]

\* ReviewView.handleMastered: the fields passed to onUpdateInsight
MasteredUpdates(insight) ==
    [isMastered |-> TRUE,
     reviewHistory |-> Append(insight.reviewHistory,
                              [timestamp |-> now, action |-> "mastered"])]

\* PracticeView.handleNext: the fields passed to onUpdateInsight
PracticeUpdates(exercise, isCorrect) ==
    [lastExerciseDate |-> now,
     exerciseHistory |-> Append(exercise.insight.exerciseHistory,
                                [timestamp |-> now, type |-> exercise.type,
                                 correct |-> isCorrect]),
     exerciseEnabled |-> TRUE]

\* the user presses "remembered well" or "needs more review"
handleReview(rememberedWell) ==
    /\ page = "review"
    /\ reviewingInsight # null
    /\ Len(reviewingInsight.reviewHistory) < MaxHist
    /\ handleUpdateInsight(reviewingInsight.id,
                           ReviewUpdates(reviewingInsight, rememberedWell))
    /\ ViewState(page')
    /\ UNCHANGED <<insights, nextId, now>>

\* the user presses "mark mastered"
handleMastered ==
    /\ page = "review"
    /\ reviewingInsight # null
    /\ Len(reviewingInsight.reviewHistory) < MaxHist
    /\ handleUpdateInsight(reviewingInsight.id, MasteredUpdates(reviewingInsight))
    /\ ViewState(page')
    /\ UNCHANGED <<insights, nextId, now>>

\* AddInsightForm.handleSubmit followed by handleAddInsight
handleAddInsight(content) ==
    /\ page = "add"
    /\ ContentLength(content) >= MinContentLength
    /\ nextId < MaxIds
    /\ Len(insights) < MaxInsights
    /\ nextId' = nextId + 1
    /\ setValue(Append(insights,
          [id |-> nextId + 1, content |-> content, timestamp |-> now,
           reviewStage |-> 0, nextReview |-> getNextReviewTimestamp(0),
           isMastered |-> FALSE,
           reviewHistory |-> <<[timestamp |-> now, action |-> "created"]>>,
           exerciseEnabled |-> FALSE, lastExerciseDate |-> 0,
           exerciseHistory |-> <<>>]))
    /\ page' = "dashboard"
    /\ ViewState("dashboard")
    /\ UNCHANGED <<insights, reviewingInsight, now>>

\* the review button of a dashboard card
handleStartReview(k) ==
    /\ page = "dashboard"
    /\ k \in 1..Len(filteredInsights)
    /\ reviewingInsight' = filteredInsights[k]
    /\ page' = "review"
    /\ ViewState("review")
    /\ UNCHANGED <<doc, pending, insights, nextId, now>>

\* the delete button of a dashboard card, confirmed
handleDeleteInsight(k) ==
    /\ page = "dashboard"
    /\ k \in 1..Len(filteredInsights)
    /\ setValue(SelectIdx(insights,
          {j \in 1..Len(insights) : insights[j].id # filteredInsights[k].id}, 1))
    /\ UNCHANGED <<insights, page, reviewingInsight, filter, modalState, exercises,
                   currentExerciseIndex, sessionComplete, nextId, now>>

\* dueByPriority without the sort: the due insights in collection order
dueByPriorityUnsorted ==
    SelectIdx(insights, {k \in 1..Len(insights) : IsDue(insights[k])}, 1)

\* the due insights, highest priority first
dueByPriority ==
    SortByPriority(SelectIdx(insights,
        {k \in 1..Len(insights) : IsDue(insights[k])}, 1))

\* handleNavigate, and onBack for the target "dashboard".  reviewingInsight is
\* read by ReviewView only, and every handler that sets the page to "review"
\* sets reviewingInsight too: the value it keeps on the other pages is never
\* read, and the model stores null for it there.
handleNavigate(targetPage) ==
    /\ IF targetPage = "review"
       THEN IF dueByPriority # <<>>
            THEN /\ reviewingInsight' = dueByPriority[1]
                 /\ page' = "review"
            ELSE UNCHANGED <<page, reviewingInsight>>
       ELSE /\ page' = targetPage
            /\ reviewingInsight' = null
    /\ <<page', reviewingInsight'>> # <<page, reviewingInsight>>
    /\ ViewState(page')
    /\ UNCHANGED <<doc, pending, insights, nextId, now>>

\* Dashboard: the user picks a filter; with "all" the sort is done in place
SetFilter(f) ==
    /\ page = "dashboard"
    /\ f # filter
    /\ filter' = f
    /\ insights' = Rendered(insights, page, f)
    /\ UNCHANGED <<doc, pending, page, reviewingInsight, modalState, exercises,
                   currentExerciseIndex, sessionComplete, nextId, now>>

\* PracticeView.handleNext, after the user answered the current exercise;
\* isCorrect is the comparison of the answer typed with correctAnswer
handleNext(isCorrect) ==
    /\ page = "practice"
    /\ ~sessionComplete
    /\ currentExerciseIndex < Len(exercises)
    /\ LET currentExercise == exercises[currentExerciseIndex + 1]
       IN  /\ Len(currentExercise.insight.exerciseHistory) < MaxExHist
           /\ handleUpdateInsight(currentExercise.insight.id,
                                  PracticeUpdates(currentExercise, isCorrect))
    /\ IF currentExerciseIndex < Len(exercises) - 1
       THEN /\ currentExerciseIndex' = currentExerciseIndex + 1
            /\ UNCHANGED sessionComplete
       ELSE /\ sessionComplete' = TRUE
            /\ UNCHANGED currentExerciseIndex
    /\ UNCHANGED <<insights, filter, modalState, exercises, nextId, now>>

\* PracticeView.resetSession
resetSession ==
    /\ page = "practice"
    /\ sessionComplete
    /\ exercises # <<>>
    /\ currentExerciseIndex' = 0
    /\ sessionComplete' = FALSE
    /\ UNCHANGED <<doc, pending, insights, page, reviewingInsight, filter, modalState,
                   exercises, nextId, now>>

\* useFirestore onSnapshot: the document is copied into storedValue and the
\* components render again; PracticeView recomputes its memoised exercises
onSnapshot ==
    /\ pending > 0
    /\ pending' = 0
    /\ insights' = Rendered(doc, page, filter)
    /\ exercises' = IF page = "practice" THEN sessionExercises(insights') ELSE exercises
    /\ UNCHANGED <<doc, page, reviewingInsight, filter, modalState,
                   currentExerciseIndex, sessionComplete, nextId, now>>

\* SettingsView.handleFileChange, once the file has been read and parsed
handleFileChange(file) ==
    /\ page = "settings"
    /\ modalState.kind = "closed"
    /\ modalState' = IF IsValidImport(file)
                     THEN [kind |-> "confirmImport",
                           data |-> [k \in 1..Len(file.items) |-> file.items[k].value]]
                     ELSE [kind |-> "error", data |-> <<>>]
    /\ UNCHANGED <<doc, pending, insights, page, reviewingInsight, filter, exercises,
                   currentExerciseIndex, sessionComplete, nextId, now>>

\* SettingsView.confirmClearData
confirmClearData ==
    /\ page = "settings"
    /\ modalState.kind = "closed"
    /\ modalState' = [kind |-> "confirmClear", data |-> <<>>]
    /\ UNCHANGED <<doc, pending, insights, page, reviewingInsight, filter, exercises,
                   currentExerciseIndex, sessionComplete, nextId, now>>

\* Modal onConfirm: onImport(importedData) or onClearData()
ModalConfirm ==
    /\ modalState.kind \in {"confirmImport", "confirmClear"}
    /\ setValue(modalState.data)
    /\ modalState' = ClosedModal
    /\ UNCHANGED <<insights, page, reviewingInsight, filter, exercises,
                   currentExerciseIndex, sessionComplete, nextId, now>>

\* Modal onClose
ModalClose ==
    /\ modalState.kind # "closed"
    /\ modalState' = ClosedModal
    /\ UNCHANGED <<doc, pending, insights, page, reviewingInsight, filter, exercises,
                   currentExerciseIndex, sessionComplete, nextId, now>>

\* time passes
Tick ==
    /\ now < MaxTime
    /\ now' = now + 1
    /\ UNCHANGED <<doc, pending, insights, page, reviewingInsight, filter, modalState,
                   exercises, currentExerciseIndex, sessionComplete, nextId>>

Pages == {"dashboard", "add", "review", "practice", "settings"}
Filters == {"today", "all", "completed"}

\* the operations of the dashboard, the add form and the review view
Next ==
    \/ \E r \in BOOLEAN : handleReview(r)
    \/ handleMastered
    \/ \E c \in Contents : handleAddInsight(c)
    \/ \E k \in 1..MaxInsights : handleStartReview(k)
    \/ \E k \in 1..MaxInsights : handleDeleteInsight(k)
    \/ \E t \in Pages : handleNavigate(t)
    \/ \E f \in Filters : SetFilter(f)
    \/ onSnapshot
    \/ Tick

Spec == Init /\ [][Next]_vars

\* a practice session: insights are added, marked mastered from the dashboard
\* or the review view, and exercised in the practice view
NextPractice ==
    \/ handleMastered
    \/ \E c \in Contents : handleAddInsight(c)
    \/ \E k \in 1..MaxInsights : handleStartReview(k)
    \/ \E t \in Pages : handleNavigate(t)
    \/ \E f \in Filters : SetFilter(f)
    \/ onSnapshot
    \/ Tick
    \/ \E c \in BOOLEAN : handleNext(c)
    \/ resetSession

SpecPractice == Init /\ [][NextPractice]_vars

\* the data management of the settings view together with the add form and
\* the review of the insights due today
NextSettings ==
    \/ \E r \in BOOLEAN : handleReview(r)
    \/ handleMastered
    \/ \E c \in Contents : handleAddInsight(c)
    \/ \E k \in 1..MaxInsights : handleStartReview(k)
    \/ \E t \in Pages : handleNavigate(t)
    \/ onSnapshot
    \/ Tick
    \/ \E file \in ImportFiles : handleFileChange(file)
    \/ confirmClearData
    \/ ModalConfirm
    \/ ModalClose

SpecSettings == Init /\ [][NextSettings]_vars

----------------------------------------------------------------------------
(* The priority ranking on collections of two insights of every stage, due
   and not due, created long ago and recently *)

\* creation times: more than 30 days ago, within the last 30 days, today
PriorityTimestamps == {0 - 31 * DAY_IN_MS, 0, DAY_IN_MS}

\* review times: overdue from the start, due today, due later
PriorityNextReviews == {0, DAY_IN_MS, MaxTime}

PriorityInsight(id, stage, nextReview, timestamp) ==
    [id |-> id, content |-> FullText, timestamp |-> timestamp, reviewStage |-> stage,
     nextReview |-> nextReview, isMastered |-> FALSE,
     reviewHistory |-> <<[timestamp |-> timestamp, action |-> "created"]>>,
     exerciseEnabled |-> FALSE, lastExerciseDate |-> 0, exerciseHistory |-> <<>>]

InitPriority ==
    /\ \E s1, s2 \in 0..Len(REVIEW_INTERVALS),
          r1, r2 \in PriorityNextReviews, t1, t2 \in PriorityTimestamps :
          doc = <<PriorityInsight(1, s1, r1, t1), PriorityInsight(2, s2, r2, t2)>>
    /\ insights = doc
    /\ page = "dashboard"
    /\ reviewingInsight = null
    /\ filter = "today"
    /\ modalState = ClosedModal
    /\ exercises = <<>>
    /\ currentExerciseIndex = 0
    /\ sessionComplete = FALSE
    /\ nextId = 2
    /\ pending = 0
    /\ now = DAY_IN_MS

\* the two places that rank by calculatePriority: the review button of the
\* header and the dashboard list under the filter "all"
NextPriority ==
    \/ handleNavigate("review")
    \/ handleNavigate("dashboard")
    \/ \E f \in Filters : SetFilter(f)
    \/ Tick

SpecPriority == InitPriority /\ [][NextPriority]_vars

----------------------------------------------------------------------------
(* Failures of the persistence service and a second device of the same user *)

\* the default useFirestore is given for the collection
initialValue == <<>>

\* the error callback of the subscription: the default replaces the value
\* in memory.  The effect that subscribes depends on initialValue, a new
\* array at every render, so the render that follows subscribes again and
\* a first notification of the new subscription is outstanding.
onSnapshotError ==
    /\ insights' = Rendered(initialValue, page, filter)
    /\ pending' = Max(pending, 1)
    /\ exercises' = IF page = "practice" THEN sessionExercises(insights') ELSE exercises
    /\ UNCHANGED <<doc, page, reviewingInsight, filter, modalState,
                   currentExerciseIndex, sessionComplete, nextId, now>>

\* handleAddInsight when setDoc rejects: setValue logs the error, nothing is
\* stored and no notification follows; the page changes all the same
handleAddInsightWriteFails(content) ==
    /\ page = "add"
    /\ ContentLength(content) >= MinContentLength
    /\ nextId < MaxIds
    /\ Len(insights) < MaxInsights
    /\ nextId' = nextId + 1
    /\ page' = "dashboard"
    /\ ViewState("dashboard")
    /\ UNCHANGED <<doc, pending, insights, reviewingInsight, now>>

\* the insight a second device of the user adds
RemoteId == 21

RemoteInsight ==
    [id |-> RemoteId, content |-> FullText, timestamp |-> now, reviewStage |-> 0,
     nextReview |-> getNextReviewTimestamp(0), isMastered |-> FALSE,
     reviewHistory |-> <<[timestamp |-> now, action |-> "created"]>>,
     exerciseEnabled |-> FALSE, lastExerciseDate |-> 0, exerciseHistory |-> <<>>]

\* a second device, whose copy is up to date, adds an insight or deletes
\* one: setValue on that device stores its whole collection
remoteSetValue ==
    /\ pending < MaxPending
    /\ \/ /\ \A k \in 1..Len(doc) : doc[k].id # RemoteId
          /\ Len(doc) < MaxInsights
          /\ doc' = Append(doc, RemoteInsight)
       \/ \E k \in 1..Len(doc) :
             doc' = SelectIdx(doc, {j \in 1..Len(doc) : j # k}, 1)
    /\ pending' = pending + 1
    /\ UNCHANGED <<insights, page, reviewingInsight, filter, modalState, exercises,
                   currentExerciseIndex, sessionComplete, nextId, now>>

\* the add form and the review view while reads and writes fail and a
\* second device writes
NextSync ==
    \/ \E r \in BOOLEAN : handleReview(r)
    \/ handleAddInsight(FullText)
    \/ handleAddInsightWriteFails(FullText)
    \/ \E t \in Pages : handleNavigate(t)
    \/ onSnapshot
    \/ onSnapshotError
    \/ remoteSetValue
    \/ Tick

SpecSync == Init /\ [][NextSync]_vars

\* a collection of two insights that are due, the first of them far enough
\* for practice
InitUpdates ==
    /\ doc = <<PriorityInsight(1, 2, DAY_IN_MS, 0), PriorityInsight(2, 1, 0, DAY_IN_MS)>>
    /\ insights = doc
    /\ page = "dashboard"
    /\ reviewingInsight = null
    /\ filter = "today"
    /\ modalState = ClosedModal
    /\ exercises = <<>>
    /\ currentExerciseIndex = 0
    /\ sessionComplete = FALSE
    /\ nextId = 2
    /\ pending = 0
    /\ now = DAY_IN_MS

\* every operation that updates or deletes one insight: the review view, the
\* practice view and the delete button of the cards
NextUpdates ==
    \/ \E r \in BOOLEAN : handleReview(r)
    \/ handleMastered
    \/ \E k \in 1..MaxInsights : handleDeleteInsight(k)
    \/ \E t \in Pages : handleNavigate(t)
    \/ \E f \in Filters : SetFilter(f)
    \/ \E c \in BOOLEAN : handleNext(c)
    \/ onSnapshot

SpecUpdates == InitUpdates /\ [][NextUpdates]_vars

----------------------------------------------------------------------------
(* The exercise generators applied to one insight.  The variable exercises    *)
(* holds what the call returned: the exercise, null, or the error thrown.     *)

\* the insight handed to the generators: at stage 2, never exercised
GeneratorInsight(content) ==
    [id |-> 1, content |-> content, timestamp |-> DAY_IN_MS, reviewStage |-> 2,
     nextReview |-> DAY_IN_MS, isMastered |-> FALSE,
     reviewHistory |-> <<[timestamp |-> DAY_IN_MS, action |-> "created"]>>,
     exerciseEnabled |-> FALSE, lastExerciseDate |-> 0, exerciseHistory |-> <<>>]

InitGenerator ==
    /\ \E c \in GeneratorContents : doc = <<GeneratorInsight(c)>>
    /\ insights = doc
    /\ page = "practice"
    /\ reviewingInsight = null
    /\ filter = "today"
    /\ modalState = ClosedModal
    /\ exercises = <<>>
    /\ currentExerciseIndex = 0
    /\ sessionComplete = FALSE
    /\ nextId = 1
    /\ pending = 0
    /\ now = DAY_IN_MS

\* a call of ExerciseEngine.generateFillBlank
CallGenerateFillBlank ==
    /\ exercises = <<>>
    /\ IF significantWords(insights[1].content) = {}
       THEN exercises' = <<null>>
       ELSE \E index \in significantWords(insights[1].content) :
               exercises' = <<generateFillBlank(insights[1], index)>>
    /\ UNCHANGED <<doc, insights, page, reviewingInsight, filter, modalState,
                   currentExerciseIndex, sessionComplete, nextId, pending, now>>

\* a call of ExerciseEngine.generateMultipleChoice
CallGenerateMultipleChoice ==
    /\ exercises = <<>>
    /\ IF keywords(insights[1].content) = {}
       THEN exercises' = <<null>>
       ELSE \E index \in keywords(insights[1].content), shuffle \in Shuffles(4) :
               exercises' = <<generateMultipleChoice(insights[1], index, shuffle)>>
    /\ UNCHANGED <<doc, insights, page, reviewingInsight, filter, modalState,
                   currentExerciseIndex, sessionComplete, nextId, pending, now>>

\* a call of AIExerciseGenerator.getMultipleChoiceFromIA; the three
\* distractors come from the first MaxPick words that are left of the pool
CallGetMultipleChoiceFromIA ==
    /\ exercises = <<>>
    /\ IF extractConcepts(insights[1].content) = <<>>
       THEN exercises' = <<[error |-> "Nao foi possivel extrair conceitos do insight"]>>
       ELSE LET n == Min(MaxPick,
                         Len(smartDistractorPool(extractConcepts(insights[1].content)[1])))
            IN  \E picked \in {q \in [1..3 -> 1..n] :
                                  q[1] # q[2] /\ q[1] # q[3] /\ q[2] # q[3]},
                   shuffle \in Shuffles(4) :
                   exercises' = <<getMultipleChoiceFromIA(insights[1], picked, shuffle)>>
    /\ UNCHANGED <<doc, insights, page, reviewingInsight, filter, modalState,
                   currentExerciseIndex, sessionComplete, nextId, pending, now>>

\* a call of ExerciseEngine.generateExercises
CallGenerateExercises ==
    /\ exercises = <<>>
    /\ \E fillBlank \in fillBlankResults(insights[1]),
          multipleChoice \in multipleChoiceResults(insights[1]),
          openAnswer \in openAnswerResults(insights[1]) :
          exercises' = ExerciseEngineGenerateExercises(fillBlank, multipleChoice, openAnswer)
    /\ UNCHANGED <<doc, insights, page, reviewingInsight, filter, modalState,
                   currentExerciseIndex, sessionComplete, nextId, pending, now>>

NextGenerator ==
    \/ CallGenerateFillBlank
    \/ CallGenerateMultipleChoice
    \/ CallGetMultipleChoiceFromIA

SpecGenerator == InitGenerator /\ [][NextGenerator]_vars

\* the contents the enhanced generators are run on
EnhancedContents ==
    {FullText, StopText, ProcessText, RepeatText, PoolText, LinesText,
     ContextText, SuffixText}

InitEnhanced ==
    /\ \E c \in EnhancedContents : doc = <<GeneratorInsight(c)>>
    /\ insights = doc
    /\ page = "practice"
    /\ reviewingInsight = null
    /\ filter = "today"
    /\ modalState = ClosedModal
    /\ exercises = <<>>
    /\ currentExerciseIndex = 0
    /\ sessionComplete = FALSE
    /\ nextId = 1
    /\ pending = 0
    /\ now = DAY_IN_MS

\* a call of generateExercisesWithAI
CallGenerateExercisesWithAI ==
    /\ exercises = <<>>
    /\ \E fillBlank \in fillBlankFromIAResults(insights[1]),
          multipleChoice \in multipleChoiceFromIAResults(insights[1]),
          standardExercises \in generateExercisesResults(insights[1]) :
          exercises' = generateExercisesWithAI(fillBlank, multipleChoice, standardExercises)
    /\ UNCHANGED <<doc, insights, page, reviewingInsight, filter, modalState,
                   currentExerciseIndex, sessionComplete, nextId, pending, now>>

NextEnhanced == CallGenerateExercisesWithAI

SpecEnhanced == InitEnhanced /\ [][NextEnhanced]_vars

\* the batch generation alone, on the same contents
NextBatch == CallGenerateExercises

SpecBatch == InitGenerator /\ [][NextBatch]_vars

----------------------------------------------------------------------------
(* Helpers of the properties *)

HasId(coll, id) == \E k \in 1..Len(coll) : coll[k].id = id

ById(coll, id) == coll[CHOOSE k \in 1..Len(coll) : coll[k].id = id]

IsPrefix(s, t) == Len(s) <= Len(t) /\ SubSeq(t, 1, Len(s)) = s

AllIds == 1..MaxIds \cup {11, 12, 13}

\* the number of days the interval table [1,3,7,21] gives a stage
IntervalDays(stage) ==
    CASE stage = 0 -> 1
      [] stage = 1 -> 3
      [] stage = 2 -> 7
      [] stage = 3 -> 21
      [] OTHER -> 1

Reviewed(t) == [timestamp |-> t, action |-> "reviewed"]

----------------------------------------------------------------------------
(* C1: "remembered well" on an insight the review view holds at stage s      *)
(* stores stage min(s+1, 3), never more than 3, the due date now +            *)
(* intervals[new stage] days, and the held history plus one {now, reviewed}.  *)

C1_RememberedWell ==
    [][handleReview(TRUE) =>
        LET s == reviewingInsight.reviewStage
            ns == IF s + 1 <= 3 THEN s + 1 ELSE 3
        IN  /\ Len(doc') = Len(insights)
            /\ \A k \in 1..Len(insights) :
                  insights[k].id = reviewingInsight.id =>
                    /\ doc'[k].reviewStage = ns
                    /\ doc'[k].reviewStage <= 3
                    /\ doc'[k].nextReview = now + IntervalDays(ns) * DAY_IN_MS
                    /\ doc'[k].reviewHistory =
                          reviewingInsight.reviewHistory \o <<Reviewed(now)>>]_vars

\* the imported insight of stage 3 was reviewed and is still at stage 3, and an
\* added insight went from stage 0 to stage 1, due three days after its review
C1_Witness ==
    /\ HasId(doc, 11) /\ HasId(doc, 1)
    /\ ById(doc, 11).reviewStage = 3
    /\ Len(ById(doc, 11).reviewHistory) = 2
    /\ ById(doc, 11).reviewHistory[2].action = "reviewed"
    /\ ById(doc, 1).reviewStage = 1
    /\ Len(ById(doc, 1).reviewHistory) = 2
    /\ ById(doc, 1).reviewHistory[2].action = "reviewed"
    /\ ById(doc, 1).nextReview =
          ById(doc, 1).reviewHistory[2].timestamp + 3 * DAY_IN_MS

----------------------------------------------------------------------------
(* C2: "needs more review" stores the stage the review view holds, the due    *)
(* date now + intervals[that stage] days, and the held history plus one       *)
(* {now, reviewed}.                                                           *)

C2_NeedsMoreReview ==
    [][handleReview(FALSE) =>
        LET s == reviewingInsight.reviewStage
        IN  /\ Len(doc') = Len(insights)
            /\ \A k \in 1..Len(insights) :
                  insights[k].id = reviewingInsight.id =>
                    /\ doc'[k].reviewStage = s
                    /\ doc'[k].nextReview = now + IntervalDays(s) * DAY_IN_MS
                    /\ doc'[k].reviewHistory =
                          reviewingInsight.reviewHistory \o <<Reviewed(now)>>]_vars

\* an added insight was reviewed and is still at stage 0, due one day later
C2_Witness ==
    \E k \in 1..Len(doc) :
        /\ doc[k].id \in 1..MaxIds
        /\ doc[k].reviewStage = 0
        /\ Len(doc[k].reviewHistory) = 2
        /\ doc[k].reviewHistory[2].action = "reviewed"
        /\ doc[k].nextReview = doc[k].reviewHistory[2].timestamp + 1 * DAY_IN_MS

----------------------------------------------------------------------------
(* C3: "mark mastered" stores isMastered = TRUE and the held history plus one *)
(* {now, mastered}, and the stage and the due date of the insight in the      *)
(* collection it updates are written back as they are.                        *)

C3_MasteredFrame ==
    [][handleMastered =>
        /\ Len(doc') = Len(insights)
        /\ \A k \in 1..Len(insights) :
              insights[k].id = reviewingInsight.id =>
                /\ doc'[k].isMastered
                /\ doc'[k].reviewHistory =
                      reviewingInsight.reviewHistory
                          \o <<[timestamp |-> now, action |-> "mastered"]>>
                /\ doc'[k].reviewStage = insights[k].reviewStage
                /\ doc'[k].nextReview = insights[k].nextReview]_vars

\* a mastered insight whose stage and due date are those of its creation
C3_Witness ==
    \E k \in 1..Len(doc) :
        /\ doc[k].isMastered
        /\ Len(doc[k].reviewHistory) = 2
        /\ doc[k].reviewHistory[2].action = "mastered"
        /\ doc[k].reviewStage = 0
        /\ doc[k].nextReview = doc[k].timestamp + 1 * DAY_IN_MS

----------------------------------------------------------------------------
(* C4: isMastered is permanent: an insight that is mastered in the stored     *)
(* collection and is still in it after a step is still mastered.              *)

C4_MasteredPermanent ==
    [][\A id \in AllIds :
          (HasId(doc, id) /\ HasId(doc', id) /\ ById(doc, id).isMastered)
              => ById(doc', id).isMastered]_vars

----------------------------------------------------------------------------
(* C5: every insight of the collection, stored or in memory, has a            *)
(* reviewStage in {0, 1, 2, 3}.                                               *)

C5_StageInRange ==
    /\ \A k \in 1..Len(doc) : doc[k].reviewStage \in 0..3
    /\ \A k \in 1..Len(insights) : insights[k].reviewStage \in 0..3

----------------------------------------------------------------------------
(* C6: the reviewStage of an insight that stays in the stored collection      *)
(* never decreases.                                                           *)

C6_StageMonotone ==
    [][\A id \in AllIds :
          (HasId(doc, id) /\ HasId(doc', id))
              => ById(doc', id).reviewStage >= ById(doc, id).reviewStage]_vars

----------------------------------------------------------------------------
(* C7: every insight of the collection has a non-empty reviewHistory that     *)
(* starts with 'created' and contains 'created' exactly once.                 *)

CreatedOnce(h) ==
    /\ h # <<>>
    /\ h[1].action = "created"
    /\ Cardinality({j \in 1..Len(h) : h[j].action = "created"}) = 1

C7_CreatedFirst ==
    /\ \A k \in 1..Len(doc) : CreatedOnce(doc[k].reviewHistory)
    /\ \A k \in 1..Len(insights) : CreatedOnce(insights[k].reviewHistory)

----------------------------------------------------------------------------
(* C8: reviewHistory is append-only: the history of an insight that stays in  *)
(* the stored collection is, before a step, a prefix of its history after.    *)

C8_ReviewHistoryAppendOnly ==
    [][\A id \in AllIds :
          (HasId(doc, id) /\ HasId(doc', id))
              => IsPrefix(ById(doc, id).reviewHistory,
                          ById(doc', id).reviewHistory)]_vars

----------------------------------------------------------------------------
(* C9: exerciseHistory is append-only: a recorded practice attempt adds one   *)
(* entry at the end of the stored exerciseHistory and drops none.             *)

C9_ExerciseHistoryAppendOnly ==
    [][\A id \in AllIds :
          (HasId(doc, id) /\ HasId(doc', id))
              => /\ IsPrefix(ById(doc, id).exerciseHistory,
                             ById(doc', id).exerciseHistory)
                 /\ (\E c \in BOOLEAN : handleNext(c))
                        /\ exercises[currentExerciseIndex + 1].insight.id = id
                    => Len(ById(doc', id).exerciseHistory)
                           = Len(ById(doc, id).exerciseHistory) + 1]_vars

----------------------------------------------------------------------------
(* C10: getNextReviewTimestamp(s) is the current time plus 1, 3, 7, 21 days   *)
(* for s = 0, 1, 2, 3, and the current time plus 1 day for a stage outside    *)
(* the table, as for stage 0.                                                 *)

C10_NextReviewTimestamp ==
    /\ getNextReviewTimestamp(0) = now + 1 * DAY_IN_MS
    /\ getNextReviewTimestamp(1) = now + 3 * DAY_IN_MS
    /\ getNextReviewTimestamp(2) = now + 7 * DAY_IN_MS
    /\ getNextReviewTimestamp(3) = now + 21 * DAY_IN_MS
    /\ \A s \in {-1, 4, 5} : getNextReviewTimestamp(s) = getNextReviewTimestamp(0)

\* the imported insight of stage 5 was rescheduled by "needs more review": it
\* is due one day after that review
C10_Witness ==
    /\ HasId(doc, 12)
    /\ ById(doc, 12).reviewStage = 5
    /\ Len(ById(doc, 12).reviewHistory) = 2
    /\ ById(doc, 12).nextReview =
          ById(doc, 12).reviewHistory[2].timestamp + 1 * DAY_IN_MS

----------------------------------------------------------------------------
(* C11: isEligibleForExercise is false for every insight below stage 2 that   *)
(* is not mastered, whatever its lastExerciseDate; for the other insights it  *)
(* is false exactly when lastExerciseDate lies in the calendar day of now,    *)
(* and true when the insight was never exercised (no lastExerciseDate) or     *)
(* was last exercised on another calendar day.                                *)

\* t and u lie between the same two midnights
SameCalendarDay(t, u) ==
    \E d \in 0..MaxTime :
        /\ d * DAY_IN_MS <= t /\ t < (d + 1) * DAY_IN_MS
        /\ d * DAY_IN_MS <= u /\ u < (d + 1) * DAY_IN_MS

ProbeInsight(stage, mastered, last) ==
    [reviewStage |-> stage, isMastered |-> mastered, lastExerciseDate |-> last]

C11_Eligibility ==
    \A stage \in 0..3, mastered \in BOOLEAN, last \in 0..MaxTime :
        LET i == ProbeInsight(stage, mastered, last)
        IN  IF stage < 2 /\ ~mastered
            THEN ~isEligibleForExercise(i)
            ELSE isEligibleForExercise(i)
                     <=> (last = 0 \/ ~SameCalendarDay(last, now))

\* the practice view offers an exercise of an insight that was exercised
\* yesterday, less than 24 hours ago
C11_Witness ==
    /\ page = "practice"
    /\ \E k \in 1..Len(exercises) :
          /\ exercises[k].insight.lastExerciseDate > 0
          /\ ~SameCalendarDay(exercises[k].insight.lastExerciseDate, now)
          /\ now - exercises[k].insight.lastExerciseDate < DAY_IN_MS

----------------------------------------------------------------------------
(* C12: once per day: a practice attempt is recorded for an insight only if   *)
(* the stored insight has no attempt recorded on the calendar day of now.     *)

C12_OncePerDay ==
    [][(\E c \in BOOLEAN : handleNext(c)) =>
          LET id == exercises[currentExerciseIndex + 1].insight.id
          IN  HasId(doc, id) =>
                 \/ ById(doc, id).lastExerciseDate = 0
                 \/ ~SameCalendarDay(ById(doc, id).lastExerciseDate, now)]_vars

----------------------------------------------------------------------------
(* C13: navigate('review') with at least one due insight in the collection    *)
(* the controller holds enters review mode on a due insight whose priority    *)
(* is maximal among the due insights, and leaves the collection alone; with   *)
(* no due insight it changes nothing at all.                                  *)

DueIdx(coll) == {k \in 1..Len(coll) : ~coll[k].isMastered /\ coll[k].nextReview <= now}

C13_NavigateReview ==
    /\ [][handleNavigate("review") =>
            /\ DueIdx(insights) # {}
            /\ page' = "review"
            /\ \E k \in DueIdx(insights) :
                  /\ reviewingInsight' = insights[k]
                  /\ \A j \in DueIdx(insights) :
                        calculatePriority(insights[j]) <= calculatePriority(insights[k])
            /\ UNCHANGED <<insights, doc>>]_vars
    /\ [](DueIdx(insights) = {} => ~ENABLED handleNavigate("review"))

\* review mode was entered on the second insight of the collection, which is
\* due and has a higher priority than the first one, which is due as well
C13_Witness ==
    /\ page = "review"
    /\ Len(insights) = 2
    /\ DueIdx(insights) = {1, 2}
    /\ reviewingInsight = insights[2]
    /\ calculatePriority(insights[2]) > calculatePriority(insights[1])
    /\ pending = 0

----------------------------------------------------------------------------
(* C14: a review update (remembered, needs more review, mastered) made in     *)
(* review mode puts under review the highest-priority due insight of the      *)
(* collection the controller holds other than the one just updated, or, if    *)
(* there is none, returns to the dashboard with no insight under review; the  *)
(* insight just updated is never selected by this step.                       *)

C14_Reselect ==
    [][(handleMastered \/ \E r \in BOOLEAN : handleReview(r)) =>
          LET id == reviewingInsight.id
              others == {k \in DueIdx(insights) : insights[k].id # id}
          IN  IF others = {}
              THEN page' = "dashboard" /\ reviewingInsight' = null
              ELSE /\ page' = "review"
                   /\ reviewingInsight'.id # id
                   /\ \E k \in others :
                         /\ reviewingInsight' = insights[k]
                         /\ \A j \in others :
                               calculatePriority(insights[j])
                                   <= calculatePriority(insights[k])]_vars

\* the first insight was reviewed in review mode and the second one, due as
\* well, is now under review, while the collection in memory still shows the
\* first one as due
C14_Witness ==
    /\ page = "review"
    /\ reviewingInsight # null
    /\ Len(insights) = 2 /\ Len(doc) = 2
    /\ DueIdx(insights) = {1, 2}
    /\ reviewingInsight.id = insights[2].id
    /\ Len(doc[1].reviewHistory) = 2
    /\ doc[1].reviewHistory[2].timestamp = now
    /\ pending = 1

----------------------------------------------------------------------------
(* C15: import is all-or-nothing.  A file that is not an array, or has an     *)
(* element that lacks id or content, opens the error dialog and changes no    *)
(* collection; a valid file                                                   *)
(* opens the confirmation dialog holding its sequence and changes no          *)
(* collection; confirming stores exactly that sequence; closing the dialog    *)
(* stores nothing.                                                            *)

C15_ImportAllOrNothing ==
    /\ [][\A file \in ImportFiles :
            handleFileChange(file) =>
              /\ UNCHANGED <<doc, insights>>
              /\ IF /\ file.isArray
                    /\ \A el \in Range(file.items) : el.hasId /\ el.hasContent
                 THEN /\ modalState'.kind = "confirmImport"
                      /\ Len(modalState'.data) = Len(file.items)
                      /\ \A k \in 1..Len(file.items) :
                            modalState'.data[k] = file.items[k].value
                 ELSE modalState'.kind = "error"]_vars
    /\ [][(ModalConfirm /\ modalState.kind = "confirmImport") =>
            doc' = modalState.data]_vars
    /\ [][ModalClose => UNCHANGED <<doc, insights>>]_vars

\* the import of the backup was confirmed while the collection held an added
\* insight: the stored collection is the backup and nothing else
C15_Witness ==
    /\ page = "settings"
    /\ modalState = ClosedModal
    /\ HasId(insights, 1)
    /\ Len(doc) = 1
    /\ doc[1] = GoodFile[1].value
    /\ pending > 0

----------------------------------------------------------------------------
(* C16: an insight leaves the stored collection only by a step that deletes   *)
(* it: no add, review or mastered update removes an insight.                  *)

C16_NeverLost ==
    [][\A id \in AllIds :
          (HasId(doc, id) /\ ~HasId(doc', id)) =>
              \E k \in 1..MaxInsights :
                  /\ handleDeleteInsight(k)
                  /\ filteredInsights[k].id = id]_vars

----------------------------------------------------------------------------
(* C17: the add form rejects a content of fewer than 10 characters and        *)
(* changes nothing; an accepted content stores the collection the controller  *)
(* holds plus one new insight with stage 0, not mastered, due now + 1 day,    *)
(* history [{now, created}] and no exercise history; "remembered well" on     *)
(* that insight stores stage 1, due 3 days after the review.                  *)

C17_Add ==
    /\ [](\A c \in Contents :
            SumLen(c) + Len(c) - 1 < 10 => ~ENABLED handleAddInsight(c))
    /\ [][\A c \in Contents :
            handleAddInsight(c) =>
              /\ SumLen(c) + Len(c) - 1 >= 10
              /\ Len(doc') = Len(insights) + 1
              /\ SubSeq(doc', 1, Len(insights)) = insights
              /\ LET i == doc'[Len(doc')]
                 IN  /\ i.content = c
                     /\ i.reviewStage = 0
                     /\ ~i.isMastered
                     /\ i.timestamp = now
                     /\ i.nextReview = now + 1 * DAY_IN_MS
                     /\ i.reviewHistory = <<[timestamp |-> now, action |-> "created"]>>
                     /\ i.exerciseHistory = <<>>
                     /\ ~HasId(insights, i.id)]_vars
    /\ [][(handleReview(TRUE)
             /\ reviewingInsight.reviewStage = 0
             /\ Len(reviewingInsight.reviewHistory) = 1
             /\ HasId(insights, reviewingInsight.id)) =>
            LET i == ById(doc', reviewingInsight.id)
            IN  i.reviewStage = 1 /\ i.nextReview = now + 3 * DAY_IN_MS]_vars

\* an added insight was marked "remembered well" once
C17_Witness ==
    \E k \in 1..Len(doc) :
        /\ doc[k].id \in 1..MaxIds
        /\ ~doc[k].isMastered
        /\ doc[k].exerciseHistory = <<>>
        /\ Len(doc[k].reviewHistory) = 2
        /\ doc[k].reviewHistory[1] = [timestamp |-> doc[k].timestamp, action |-> "created"]
        /\ doc[k].reviewHistory[2].action = "reviewed"
        /\ doc[k].reviewStage = 1
        /\ doc[k].nextReview = doc[k].reviewHistory[2].timestamp + 3 * DAY_IN_MS
        /\ doc[k].reviewHistory[2].timestamp > doc[k].timestamp

----------------------------------------------------------------------------
(* C18: the dashboard filter "to review", the review counter,                 *)
(* navigate('review') and the re-selection after a review all consider        *)
(* exactly the insights of the collection the controller holds that are not   *)
(* mastered and have nextReview <= now: none counts or selects a mastered     *)
(* insight.                                                                   *)

C18_MasteredExcluded ==
    LET due == {insights[k] : k \in DueIdx(insights)}
    IN  /\ filter = "today" => Range(filteredInsights) = due
        /\ insightsToReviewCount = Cardinality(DueIdx(insights))
        /\ Range(dueByPriority) = due
        /\ \A id \in AllIds :
              Range(nextToReview(id)) = {i \in due : i.id # id}
        /\ \A i \in Range(dueByPriority) : ~i.isMastered
        /\ \A id \in AllIds : \A i \in Range(nextToReview(id)) : ~i.isMastered

\* the dashboard shows the insights to review: the collection holds a
\* mastered insight whose review date has passed, which is not shown, and a
\* due insight, which is
C18_Witness ==
    /\ page = "dashboard"
    /\ filter = "today"
    /\ Len(insights) = 2
    /\ \E k \in 1..2 : insights[k].isMastered /\ insights[k].nextReview <= now
    /\ Len(filteredInsights) = 1
    /\ insightsToReviewCount = 1

----------------------------------------------------------------------------
(* C19: every multiple-choice exercise the base generator or the enhanced     *)
(* generator returns has exactly 4 options, no two of them equal, and         *)
(* exactly one of them equal to correctAnswer when case is ignored.           *)

C19_MultipleChoiceOptions ==
    \A e \in Range(exercises) :
        (e # null /\ "type" \in DOMAIN e /\ e.type = "multiple-choice") =>
            /\ Len(e.options) = 4
            /\ \A i, j \in 1..Len(e.options) : i # j => e.options[i] # e.options[j]
            /\ Cardinality({i \in 1..Len(e.options) :
                               toLowerCase(e.options[i]) = toLowerCase(e.correctAnswer)}) = 1

\* the keyword "Processo" was picked: the answer is "processo", the options
\* hold "Processo" and the next three words of the pool, not "processo"
C19_Witness ==
    /\ insights[1].content = ProcessText
    /\ exercises # <<>>
    /\ exercises[1] # null
    /\ "options" \in DOMAIN exercises[1]
    /\ exercises[1].correctAnswer = commonDistractors[1]
    /\ commonDistractors[1] \notin Range(exercises[1].options)
    /\ ProcessText[2] \in Range(exercises[1].options)
    /\ {commonDistractors[2], commonDistractors[3], commonDistractors[4]}
           \subseteq Range(exercises[1].options)

----------------------------------------------------------------------------
(* C20: a fill-blank exercise of the base generator has as correctAnswer the  *)
(* lowercased form of a token of the content (the content split at white      *)
(* space), punctuation stripped, that is longer than 3 characters and is no   *)
(* stop word, and as prompt the tokens of the content with that one position  *)
(* replaced by the blank marker and every other token unchanged; when no      *)
(* token qualifies the generator returns no exercise.                         *)

C20_FillBlankRoundTrip ==
    [][CallGenerateFillBlank =>
          LET tokens == splitWhitespace(insights[1].content)
              qualifies == {k \in 1..Len(tokens) :
                              /\ Len(StripPunctuation(tokens[k])) > 3
                              /\ toLowerCase(StripPunctuation(tokens[k])) \notin StopWords}
              e == exercises'[1]
          IN  IF qualifies = {}
              THEN exercises' = <<null>>
              ELSE /\ e # null
                   /\ e.type = "fill-blank"
                   /\ \E k \in qualifies :
                         /\ e.correctAnswer = toLowerCase(StripPunctuation(tokens[k]))
                         /\ splitWhitespace(e.prompt.words)
                               = [tokens EXCEPT ![k] = BlankMarker]]_vars

----------------------------------------------------------------------------
\* C21: a batch generated for one insight holds at most one exercise of each
\* type, in the order fill-blank, multiple-choice, open-answer, the first
\* present exactly when the content has a significant word and the second
\* exactly when it has a keyword; the open-answer exercise is always there,
\* last, and no element is null or an error.  The types are those the
\* practice session's generateExercises announces.  (exercises is empty
\* until generateExercises has returned.)
BatchTypes(batch) == [k \in 1..Len(batch) |-> batch[k].type]

C21_BatchOrder ==
    exercises # <<>> =>
        LET content == insights[1].content
            expected ==
                (IF significantWords(content) # {} THEN <<"fill-blank">> ELSE <<>>)
                \o (IF keywords(content) # {} THEN <<"multiple-choice">> ELSE <<>>)
                \o <<"open-answer">>
        IN  /\ \A k \in 1..Len(exercises) :
                   /\ exercises[k] # null
                   /\ "type" \in DOMAIN exercises[k]
                   /\ "error" \notin DOMAIN exercises[k]
            /\ BatchTypes(exercises) = expected
            /\ exercises[Len(exercises)].type = "open-answer"
            /\ \A i, j \in 1..Len(exercises) :
                   i # j => exercises[i].type # exercises[j].type
            /\ BatchTypes(exercises) =
                   [k \in 1..Len(generateExercises(insights[1])) |->
                       generateExercises(insights[1])[k].type]

\* a batch for a content whose only word of some length is a stop word:
\* both generators returned null and the batch is the open-answer exercise
C21_Witness ==
    /\ Len(exercises) = 1
    /\ exercises[1] # null
    /\ "type" \in DOMAIN exercises[1]
    /\ exercises[1].type = "open-answer"
    /\ significantWords(insights[1].content) = {}
    /\ exercises[1].correctAnswer = insights[1].content

----------------------------------------------------------------------------
\* C22: an open-answer exercise is never graded by comparing the text typed
\* with correctAnswer: what completing it in a practice session records is
\* the same whether or not the text typed equals correctAnswer.
C22_OpenAnswerNotGraded ==
    [][\A isCorrect \in BOOLEAN :
          (/\ handleNext(isCorrect)
           /\ exercises[currentExerciseIndex + 1].type = "open-answer")
          => handleNext(~isCorrect)]_vars

----------------------------------------------------------------------------
\* C23: for two insights with the same creation time and stage the one with
\* the earlier nextReview never has the lower priority; for the same
\* nextReview and creation time the higher stage never has the higher
\* priority; for the same nextReview and stage the one created later (the
\* larger recency bonus) never has the lower priority.
C23_PriorityMonotone ==
    \A i, j \in 1..Len(insights) :
        LET a == insights[i]
            b == insights[j]
        IN  /\ (a.timestamp = b.timestamp /\ a.reviewStage = b.reviewStage
                  /\ a.nextReview <= b.nextReview)
               => calculatePriority(a) >= calculatePriority(b)
            /\ (a.timestamp = b.timestamp /\ a.nextReview = b.nextReview
                  /\ a.reviewStage >= b.reviewStage)
               => calculatePriority(a) <= calculatePriority(b)
            /\ (a.nextReview = b.nextReview /\ a.reviewStage = b.reviewStage
                  /\ a.timestamp >= b.timestamp)
               => calculatePriority(a) >= calculatePriority(b)

\* the review button picked the second insight of the collection, which
\* differs from the first only by its earlier nextReview
C23_Witness ==
    /\ page = "review"
    /\ reviewingInsight # null
    /\ Len(insights) = 2
    /\ reviewingInsight = insights[2]
    /\ insights[1].nextReview <= now
    /\ insights[2].nextReview < insights[1].nextReview
    /\ insights[1].timestamp = insights[2].timestamp
    /\ insights[1].reviewStage = insights[2].reviewStage
    /\ calculatePriority(insights[2]) > calculatePriority(insights[1])

----------------------------------------------------------------------------
----------------------------------------------------------------------------
\* C25: a persistence failure never loses the value in memory: after a
\* write that failed, and after a read error reported to the subscription,
\* the collection in memory is the one it was before the failure.
C25_FailureKeepsValue ==
    [][(onSnapshotError \/ handleAddInsightWriteFails(FullText))
          => insights' = insights]_vars

----------------------------------------------------------------------------
\* the local writes of the model
LocalWrite ==
    \/ \E r \in BOOLEAN : handleReview(r)
    \/ handleAddInsight(FullText)

\* C26: last write wins, with no merging: what a local write stores is made
\* of the writer's copy in memory alone, so that an insight the stored
\* collection holds and the writer's copy does not (a remote change not yet
\* notified) is not in the stored collection after the write.
C26_LastWriteWins ==
    [][LocalWrite =>
          /\ Len(doc') <= Len(insights) + 1
          /\ \A k \in 1..Len(doc') :
                HasId(insights, doc'[k].id) \/ doc'[k].id = nextId']_vars

\* the reachable state of the claim: the device's copy holds the insight of
\* the second device, which is not due and so was never reviewed here; two
\* writes were made since the last notification, one of them this device's
\* first add.  The second device's delete came first and is undone: the
\* stored collection is the device's copy with the new insight appended.
C26_Witness ==
    /\ pending = 2
    /\ nextId = 1
    /\ Len(insights) = 1
    /\ insights[1].id = RemoteId
    /\ now < insights[1].nextReview
    /\ Len(doc) = 2
    /\ doc[1] = insights[1]
    /\ doc[2].id = 1

----------------------------------------------------------------------------
\* C27: with one device, no update is lost: an add stores the collection
\* stored by the writes before it plus the new insight, and a review or
\* mastered update stores, for every other insight, what the writes before
\* it stored, also when the notification of an earlier write has not yet
\* reached the copy in memory.
C27_NoLostUpdate ==
    [][/\ (\E c \in Contents : handleAddInsight(c))
            => /\ Len(doc') = Len(doc) + 1
               /\ SubSeq(doc', 1, Len(doc)) = doc
       /\ ((\E r \in BOOLEAN : handleReview(r)) \/ handleMastered)
            => \A k \in 1..Len(doc) :
                  doc[k].id # reviewingInsight.id
                     => \E j \in 1..Len(doc') : doc'[j] = doc[k]]_vars

----------------------------------------------------------------------------
\* C28: whenever the controller is in review mode with an insight under
\* review, that insight is not mastered and is due (nextReview <= now),
\* whichever way review mode was entered.
C28_ReviewOnlyDue ==
    (page = "review" /\ reviewingInsight # null)
        => /\ ~reviewingInsight.isMastered
           /\ reviewingInsight.nextReview <= now

----------------------------------------------------------------------------
\* C29: the number on the practice button is the number of insights of the
\* collection in memory for which isEligibleForExercise holds.
C29_CounterAgrees ==
    exerciseAvailableCount(insights)
        = Cardinality({k \in 1..Len(insights) : isEligibleForExercise(insights[k])})

----------------------------------------------------------------------------
\* what a write leaves of the collection the controller holds when it
\* updates the insight id: the same ids and creation timestamps at the same
\* positions, and every insight with another id as it was
UpdateFrame(id) ==
    /\ Len(doc') = Len(insights)
    /\ \A k \in 1..Len(insights) :
          /\ doc'[k].id = insights[k].id
          /\ doc'[k].timestamp = insights[k].timestamp
          /\ insights[k].id # id => doc'[k] = insights[k]

\* what a write leaves when it deletes the insight id: the insights with
\* another id, all of them, as they were and in the order they had
DeleteFrame(id) ==
    LET kept == {k \in 1..Len(insights) : insights[k].id # id}
    IN  /\ Len(doc') = Cardinality(kept)
        /\ \E f \in [1..Len(doc') -> kept] :
              /\ \A a, b \in 1..Len(doc') : a < b => f[a] < f[b]
              /\ \A a \in 1..Len(doc') : doc'[a] = insights[f[a]]

\* C30: a review, mastered or practice update and a delete touch only the
\* insight with the id given: the other insights of the collection the
\* controller holds and their order are as before, the id and the creation
\* timestamp of the insight updated are as before, and when no insight has
\* the id the collection stored is the collection the controller holds.
C30_Frame ==
    [][/\ \A r \in BOOLEAN : handleReview(r) => UpdateFrame(reviewingInsight.id)
       /\ handleMastered => UpdateFrame(reviewingInsight.id)
       /\ \A c \in BOOLEAN :
             handleNext(c) => UpdateFrame(exercises[currentExerciseIndex + 1].insight.id)
       /\ \A k \in 1..MaxInsights :
             handleDeleteInsight(k) => DeleteFrame(filteredInsights[k].id)]_vars

\* the second insight of the collection has been reviewed: the first is
\* stored as it was, before the second, whose id and creation timestamp are
\* as before
C30_Witness ==
    /\ pending = 1
    /\ Len(insights) = 2
    /\ Len(doc) = 2
    /\ doc[1] = insights[1]
    /\ doc[2] # insights[2]
    /\ doc[2].id = insights[2].id
    /\ doc[2].timestamp = insights[2].timestamp
    /\ Len(doc[2].reviewHistory) = Len(insights[2].reviewHistory) + 1

====
